---- MODULE Spec2Model ----
(***************************************************************************)
(* A model of smazmodule.c: the two host-callable functions                *)
(* py_smaz_compress and py_smaz_decompress, the scratch buffer each one    *)
(* sizes, grows and frees around the codec routine, the C heap they        *)
(* allocate from and the host values that go in and come out.              *)
(*                                                                         *)
(* Byte strings are kept run-length encoded: a sequence of runs            *)
(* [b |-> byte, n |-> count], no run empty and no two neighbouring runs of  *)
(* the same byte.  The encoding is exact, so a buffer of 4096 bytes and an  *)
(* input of 8194 bytes are modelled at their real sizes.                    *)
(***************************************************************************)
EXTENDS Integers, Sequences, FiniteSets, TLC

(***************************************************************************)
(* Byte strings                                                            *)
(***************************************************************************)
Run(b, n) == [b |-> b, n |-> n]

Fill(b, n) == IF n <= 0 THEN <<>> ELSE <<Run(b, n)>>

RECURSIVE BLen(_)
BLen(s) == IF s = <<>> THEN 0 ELSE Head(s).n + BLen(Tail(s))

Cat(s, t) ==
    IF s = <<>> THEN t
    ELSE IF t = <<>> THEN s
    ELSE IF s[Len(s)].b = t[1].b
         THEN SubSeq(s, 1, Len(s) - 1)
              \o <<Run(t[1].b, s[Len(s)].n + t[1].n)>>
              \o Tail(t)
         ELSE s \o t

RECURSIVE Take(_, _)
Take(s, k) ==
    IF k <= 0 \/ s = <<>> THEN <<>>
    ELSE IF Head(s).n >= k THEN <<Run(Head(s).b, k)>>
    ELSE <<Head(s)>> \o Take(Tail(s), k - Head(s).n)

RECURSIVE Drop(_, _)
Drop(s, k) ==
    IF s = <<>> THEN <<>>
    ELSE IF k <= 0 THEN s
    ELSE IF Head(s).n > k THEN <<Run(Head(s).b, Head(s).n - k)>> \o Tail(s)
    ELSE Drop(Tail(s), k - Head(s).n)

\* The byte at index i (from 0); i is below BLen(s).
At(s, i) == Head(Drop(s, i)).b

\* s with the byte at index i replaced by b.
SetAt(s, i, b) == Cat(Cat(Take(s, i), Fill(b, 1)), Drop(s, i + 1))

\* s with its first BLen(p) bytes replaced by p (memcpy to the start).
Overwrite(s, p) == Cat(p, Drop(s, BLen(p)))

\* The index of the first byte b of s, or BLen(s) when s holds none.
RECURSIVE IndexOf(_, _)
IndexOf(s, b) ==
    IF s = <<>> THEN 0
    ELSE IF Head(s).b = b THEN 0
    ELSE Head(s).n + IndexOf(Tail(s), b)

Has(s, b) == \E i \in 1..Len(s) : s[i].b = b

IsPrefix(p, s) == Take(s, BLen(p)) = p

(***************************************************************************)
(* The codec of smaz/smaz.h.  Its source is not part of the wrapper: it is *)
(* a codebook codec with a one-byte escape for bytes outside the codebook,  *)
(* and it reports outlen + 1 when its output does not fit.                  *)
(***************************************************************************)
ChA == 97
ChB == 98
ChZ == 122
CodeAA == 1
CodeA == 2
CodeB == 3
VerbatimByte == 254

RECURSIVE Verbatim(_, _)
Verbatim(b, n) ==
    IF n <= 0 THEN <<>>
    ELSE Cat(Cat(Fill(VerbatimByte, 1), Fill(b, 1)), Verbatim(b, n - 1))

CompressRun(r) ==
    IF r.b = ChA THEN Cat(Fill(CodeAA, r.n \div 2), Fill(CodeA, r.n % 2))
    ELSE IF r.b = ChB THEN Fill(CodeB, r.n)
    ELSE Verbatim(r.b, r.n)

RECURSIVE SmazCompressed(_)
SmazCompressed(s) ==
    IF s = <<>> THEN <<>>
    ELSE Cat(CompressRun(Head(s)), SmazCompressed(Tail(s)))

DecompressRun(r) ==
    IF r.b = CodeAA THEN Fill(ChA, 2 * r.n)
    ELSE IF r.b = CodeA THEN Fill(ChA, r.n)
    ELSE Fill(ChB, r.n)

RECURSIVE SmazDecompressed(_)
SmazDecompressed(c) ==
    IF c = <<>> THEN <<>>
    ELSE IF Head(c).b = VerbatimByte
         THEN Cat(Fill(At(c, 1), 1), SmazDecompressed(Drop(c, 2)))
         ELSE Cat(DecompressRun(Head(c)), SmazDecompressed(Tail(c)))

\* A code stream the codec can read: codebook codes, and escapes each
\* followed by its byte.
RECURSIVE WellFormed(_)
WellFormed(c) ==
    IF c = <<>> THEN TRUE
    ELSE IF Head(c).b = VerbatimByte
         THEN BLen(c) >= 2 /\ WellFormed(Drop(c, 2))
         ELSE Head(c).b \in {CodeAA, CodeA, CodeB} /\ WellFormed(Tail(c))

\* One call of the codec on the first inlen bytes of in with room for outlen
\* bytes: the result code and the bytes it stored from the start of out.
Transform(full, outlen) ==
    IF BLen(full) > outlen
    THEN [code |-> outlen + 1, stored |-> Take(full, outlen)]
    ELSE [code |-> BLen(full), stored |-> full]

smaz_compress(in, inlen, outlen) == Transform(SmazCompressed(Take(in, inlen)), outlen)

smaz_decompress(in, inlen, outlen) == Transform(SmazDecompressed(Take(in, inlen)), outlen)

(***************************************************************************)
(* Host values and their conversions (Python.h)                            *)
(***************************************************************************)
NUL == 0
ChEacute == 233

\* UTF-8 of one run of code points below 2048.
RECURSIVE TwoBytes(_, _)
TwoBytes(cp, n) ==
    IF n <= 0 THEN <<>>
    ELSE Cat(Cat(Fill(192 + (cp \div 64), 1), Fill(128 + (cp % 64), 1)),
             TwoBytes(cp, n - 1))

RECURSIVE Utf8Encode(_)
Utf8Encode(text) ==
    IF text = <<>> THEN <<>>
    ELSE Cat(IF Head(text).b < 128 THEN <<Head(text)>>
             ELSE TwoBytes(Head(text).b, Head(text).n),
             Utf8Encode(Tail(text)))

RECURSIVE Utf8Valid(_)
Utf8Valid(bytes) ==
    IF bytes = <<>> THEN TRUE
    ELSE IF Head(bytes).b < 128 THEN Utf8Valid(Tail(bytes))
    ELSE /\ Head(bytes).b \in 194..223
         /\ BLen(bytes) >= 2
         /\ At(bytes, 1) \in 128..191
         /\ Utf8Valid(Drop(bytes, 2))

\* The text of valid UTF-8 bytes.
RECURSIVE Utf8Decode(_)
Utf8Decode(bytes) ==
    IF bytes = <<>> THEN <<>>
    ELSE IF Head(bytes).b < 128
         THEN Cat(<<Head(bytes)>>, Utf8Decode(Tail(bytes)))
         ELSE Cat(Fill((Head(bytes).b - 192) * 64 + (At(bytes, 1) - 128), 1),
                  Utf8Decode(Drop(bytes, 2)))

PyStr(text) == [kind |-> "str", val |-> text, err |-> ""]
PyBytes(bytes) == [kind |-> "bytes", val |-> bytes, err |-> ""]
PyInt == [kind |-> "int", val |-> <<>>, err |-> ""]
PyNone == [kind |-> "none", val |-> <<>>, err |-> ""]
PyError(e) == [kind |-> "error", val |-> <<>>, err |-> e]


\* A parse that lets any single argument through.
ParseCompressArgsAnyType(args) ==
    IF Len(args) /= 1
    THEN [ok |-> FALSE, err |-> "TypeError", buf |-> <<>>]
    ELSE [ok |-> TRUE, err |-> "",
          buf |-> Cat(Utf8Encode(args[1].val), Fill(NUL, 1))]

\* PyArg_ParseTuple(args, "s:compress", &uncompressed_input): one str with no
\* embedded null character; the C string is its UTF-8 with a terminator.
ParseCompressArgs(args) ==
    IF Len(args) /= 1 \/ args[1].kind /= "str"
    THEN [ok |-> FALSE, err |-> "TypeError", buf |-> <<>>]
    ELSE IF Has(args[1].val, NUL)
    THEN [ok |-> FALSE, err |-> "ValueError", buf |-> <<>>]
    ELSE [ok |-> TRUE, err |-> "",
          buf |-> Cat(Utf8Encode(args[1].val), Fill(NUL, 1))]

\* PyArg_ParseTuple(args, "y#:decompress", &compressed_data,
\* &compressed_data_size): one bytes object, any byte values.
ParseDecompressArgs(args) ==
    IF Len(args) /= 1 \/ args[1].kind /= "bytes"
    THEN [ok |-> FALSE, err |-> "TypeError", buf |-> <<>>]
    ELSE [ok |-> TRUE, err |-> "", buf |-> args[1].val]

\* strlen: the bytes before the first terminator.
strlen(cstr) == IndexOf(cstr, NUL)

(***************************************************************************)
(* The C heap                                                              *)
(***************************************************************************)
NULL == 0
Poison == 126
\* What a fresh allocation may hold.
GarbageBytes == {NUL, Poison}

\* A block: owner and call are the thread and the call that allocated it,
\* touched the threads that read, wrote, resized or freed it, past the byte
\* the program stored one past its end (-1 when it stored none there).
Block(size, g, t, c) ==
    [size |-> size, data |-> Fill(g, size), past |-> -1, live |-> TRUE,
     frees |-> 0, owner |-> t, call |-> c, touched |-> {}]

Touch(h, ptr, t) ==
    IF ptr = NULL THEN h ELSE [h EXCEPT ![ptr].touched = @ \cup {t}]

\* Blocks a call's reallocs may move, to keep the heaps of a long call few.
MaxMoves == 2

\* The blocks call c of thread t has had released.
Released(h, t, c) ==
    {p \in 1..Len(h) : h[p].owner = t /\ h[p].call = c /\ ~h[p].live}

\* The outcomes of malloc(size): no memory, or a fresh block.  The int size
\* is converted to size_t: a negative one asks for more than the address
\* space holds and always fails.
malloc(h, size, t, c) ==
    {[ret |-> NULL, heap |-> h]}
    \cup (IF size < 0 THEN {}
          ELSE {[ret |-> Len(h) + 1, heap |-> Append(h, Block(size, g, t, c))] :
                  g \in GarbageBytes})

Freed(h, ptr, t) ==
    IF ptr = NULL THEN h
    ELSE [h EXCEPT ![ptr].live = FALSE, ![ptr].frees = @ + 1,
                   ![ptr].touched = @ \cup {t}]

\* The outcomes of realloc(ptr, size): no memory (the old block stays), the
\* block resized where it is, or its bytes moved to a fresh block and the old
\* one released; for size 0 also the block released and NULL returned.
realloc(h, ptr, size, t, c) ==
    IF ptr = NULL THEN malloc(h, size, t, c)
    ELSE IF size < 0 THEN {[ret |-> NULL, heap |-> h]}
    ELSE {[ret |-> NULL, heap |-> h]}
         \cup (IF size = 0 THEN {[ret |-> NULL, heap |-> Freed(h, ptr, t)]} ELSE {})
         \cup {[ret |-> ptr,
                heap |-> [h EXCEPT ![ptr].size = size,
                                   ![ptr].past = -1,
                                   ![ptr].touched = @ \cup {t},
                                   ![ptr].data = Cat(Take(@, size),
                                                     Fill(g, size - h[ptr].size))]] :
                 g \in GarbageBytes}
         \cup (IF Cardinality(Released(h, t, c)) >= MaxMoves THEN {}
               ELSE {[ret |-> Len(h) + 1,
                      heap |-> Append(Freed(h, ptr, t),
                                      [Block(size, g, t, c) EXCEPT
                                         !.data = Cat(Take(h[ptr].data, size),
                                                      Fill(g, size - h[ptr].size))])] :
                       g \in GarbageBytes})

(***************************************************************************)
(* State                                                                   *)
(***************************************************************************)
VARIABLES
    heap,      \* the blocks ever allocated; a pointer is an index, NULL is 0
    thread,    \* per host thread: the call it is in and that call's locals
    history,   \* per host thread: the calls that returned, with their results
    crashed    \* the process died (a store through NULL, a heap overrun)

vars == <<heap, thread, history, crashed>>

\* A first buffer of two pages.
InitialSizeTwoPages == 2 * 4096

\* line 18, line 72
InitialSize == 4096
\* The range of the int that holds the capacity (lines 18 and 72).
IntMax == 2147483647
IntMin == -IntMax - 1
\* 2^30: from here on the double of a capacity is above IntMax.
Half == IntMax \div 2 + 1

\* size * 2 is outside the range of int: signed overflow, undefined.
DoublingOverflows(size) == size >= Half \/ size < -Half

\* line 36, line 87: output_buffer_size *= 2.  Where the double is outside
\* the range of int this is the value two's complement arithmetic leaves.
Doubled(size) ==
    IF size >= Half THEN (size - Half) * 2 + IntMin
    ELSE IF size < -Half THEN ((size + Half) * 2 + IntMax) + 1
    ELSE size * 2
\* line 29, line 81
IsOverflow(size, code) == size + 1 = code
\* The terminator stored one byte too far.
TerminatorIndexPastEnd(decompressed_size) == decompressed_size + 1

\* line 98: the index the terminator is stored at
TerminatorIndex(decompressed_size) == decompressed_size

Event(op, buf, cap, n) == [op |-> op, buf |-> buf, cap |-> cap, n |-> n]

\* The input pointer's bytes and the input length one codec invocation got.
Given(in, inlen) == [in |-> in, inlen |-> inlen]

\* The growth steps of the call with this log: its allocations after the first.
GrowthSteps(log) ==
    Cardinality({i \in 1..Len(log) : log[i].op \in {"malloc", "realloc"}}) - 1

\* A thread between calls.  given collects what the codec invocations of
\* the call were handed as input; host names the pool the thread's first
\* call draws its argument from.
Idle(left) ==
    [pc |-> "idle", fn |-> "", args |-> <<>>, input |-> <<>>, input_size |-> 0,
     output_buffer |-> NULL, output_buffer_size |-> 0, size |-> 0,
     result |-> PyNone, image |-> <<>>, log |-> <<>>, ncall |-> 0,
     left |-> left, given |-> {}, host |-> "short"]

Returned(t, res) == Append(history[t], [fn |-> thread[t].fn, args |-> thread[t].args,
                                       result |-> res, log |-> thread[t].log])

Logged(t, e) == Append(thread[t].log, e)

\* The process dies in thread t's call.
Crash(t, e) ==
    /\ crashed' = TRUE
    /\ thread' = [thread EXCEPT ![t].pc = "crashed", ![t].log = Logged(t, e)]
    /\ UNCHANGED <<heap, history>>

\* return to the host with res
Return(t, res) ==
    /\ thread' = [thread EXCEPT ![t].pc = "returned", ![t].result = res]
    /\ history' = [history EXCEPT ![t] = Returned(t, res)]

(***************************************************************************)
(* The host's values                                                       *)
(***************************************************************************)
\* Calls one thread makes one after the other.
MaxCalls == 2
\* Growth steps the inputs reach.
MaxDoublings == 1

RECURSIVE Pow2(_)
Pow2(k) == IF k = 0 THEN 1 ELSE 2 * Pow2(k - 1)

Caps == {InitialSize * Pow2(g) : g \in 0..MaxDoublings}

\* Output lengths at and around every capacity of the retry sequence.
OutLens == {0, 1} \cup {c + d : c \in Caps, d \in {-1, 0, 1}}

Texts ==
    {Fill(ChB, n) : n \in OutLens}
    \cup {Fill(ChA, 2 * c + 1) : c \in Caps}
    \cup {Fill(ChZ, 1), Fill(ChEacute, 1), Cat(Fill(ChA, 3), Fill(ChB, 1)),
          Cat(Fill(ChA, 1), Cat(Fill(NUL, 1), Fill(ChA, 1)))}

\* Code streams: what compress gives for the texts, and streams whose output
\* holds a zero byte or is not UTF-8.
Streams ==
    {SmazCompressed(Utf8Encode(x)) : x \in {y \in Texts : ~Has(y, NUL)}}
    \cup {Verbatim(NUL, 1),
          Cat(Fill(CodeB, 1), Cat(Verbatim(NUL, 1), Fill(CodeB, 1))),
          Verbatim(255, 1)}
    \cup {Cat(Verbatim(NUL, 1), Fill(CodeB, c)) : c \in Caps}
    \cup {Cat(Fill(CodeB, c - 1), Verbatim(NUL, 1)) : c \in Caps}

Pool ==
    {<<PyStr(x)>> : x \in Texts}
    \cup {<<PyBytes(c)>> : c \in Streams}
    \cup {<<PyInt>>, <<PyNone>>, <<>>, <<PyStr(<<>>), PyStr(<<>>)>>}

\* What two threads call with at the same time.
ConcPool ==
    {<<PyStr(Fill(ChB, InitialSize + 1))>>,
     <<PyBytes(Fill(CodeB, InitialSize))>>,
     <<PyBytes(Fill(CodeB, InitialSize + 1))>>,
     <<PyInt>>}

\* Growth steps one call makes before the model leaves it.
MaxRetries == 21

\* Output lengths around 2^30, the last capacity whose double is an int, and
\* a few short ones.
LongLens == {1, 4 * InitialSize + 1, Half - 1, Half, Half + 1}

\* What a host with gigabytes of text calls with.
LongPool ==
    {<<PyStr(Fill(ChB, n))>> : n \in LongLens}
    \cup {<<PyBytes(Fill(CodeB, n))>> : n \in LongLens}

(***************************************************************************)
(* The host program: each thread makes its calls one after the other.  A   *)
(* later call repeats the one before or decompresses what compress gave.   *)
(***************************************************************************)
NextCalls(t) ==
    IF thread[t].ncall = 0
    THEN {[fn |-> f, args |-> a] :
            f \in {"compress", "decompress"},
            a \in IF thread[t].host = "long" THEN LongPool
                  ELSE IF Cardinality(DOMAIN thread) = 1 THEN Pool ELSE ConcPool}
    ELSE {[fn |-> thread[t].fn, args |-> thread[t].args]}
         \cup (IF thread[t].fn = "compress" /\ thread[t].result.kind /= "error"
               THEN {[fn |-> "decompress", args |-> <<thread[t].result>>]}
               ELSE {})

HostCall(t) ==
    /\ ~crashed
    /\ thread[t].pc \in {"idle", "returned"}
    /\ thread[t].left > 0
    /\ \E c \in NextCalls(t) :
         thread' = [thread EXCEPT ![t] =
                      [Idle(thread[t].left - 1) EXCEPT
                         !.pc = "parse", !.fn = c.fn, !.args = c.args,
                         !.ncall = thread[t].ncall + 1,
                         !.host = thread[t].host]]
    /\ UNCHANGED <<heap, history, crashed>>

(***************************************************************************)
(* py_smaz_compress                                                        *)
(***************************************************************************)
\* lines 12-14
CompressParse(t) ==
    /\ ~crashed
    /\ thread[t].pc = "parse" /\ thread[t].fn = "compress"
    /\ LET p == ParseCompressArgs(thread[t].args) IN
         IF p.ok
         THEN /\ thread' = [thread EXCEPT ![t].pc = "malloc", ![t].input = p.buf]
              /\ UNCHANGED history
         ELSE Return(t, PyError(p.err))
    /\ UNCHANGED <<heap, crashed>>

\* lines 18-20
CompressMalloc(t) ==
    /\ ~crashed
    /\ thread[t].pc = "malloc" /\ thread[t].fn = "compress"
    /\ \E m \in malloc(heap, InitialSize, t, thread[t].ncall) :
         /\ heap' = m.heap
         /\ thread' = [thread EXCEPT
                         ![t].pc = "transform",
                         ![t].output_buffer_size = InitialSize,
                         ![t].output_buffer = m.ret,
                         ![t].log = Logged(t, Event("malloc", m.ret, InitialSize, 0))]
    /\ UNCHANGED <<history, crashed>>

\* lines 21-23 and 39-41: the codec stores through output_buffer; a store
\* through NULL kills the process.
CompressTransform(t) ==
    /\ ~crashed
    /\ thread[t].pc = "transform" /\ thread[t].fn = "compress"
    /\ LET buf == thread[t].output_buffer
           cap == thread[t].output_buffer_size
           r == smaz_compress(thread[t].input, strlen(thread[t].input), cap)
       IN IF buf = NULL /\ r.stored /= <<>>
          THEN Crash(t, Event("transform", buf, cap, r.code))
          ELSE /\ heap' = IF buf = NULL THEN heap
                          ELSE [heap EXCEPT ![buf].data = Overwrite(@, r.stored),
                                            ![buf].touched = @ \cup {t}]
               /\ thread' = [thread EXCEPT
                               ![t].pc = "loop",
                               ![t].size = r.code,
                               ![t].given = @ \cup {Given(thread[t].input,
                                                          strlen(thread[t].input))},
                               ![t].log = Logged(t, Event("transform", buf, cap, r.code))]
               /\ UNCHANGED <<history, crashed>>

\* A growth step that resizes the block and goes on with the pointer it had.
CompressGrowStale(t) ==
    /\ ~crashed
    /\ thread[t].pc = "loop" /\ thread[t].fn = "compress"
    /\ IsOverflow(thread[t].output_buffer_size, thread[t].size)
    /\ GrowthSteps(thread[t].log) < MaxRetries
    /\ LET size == Doubled(thread[t].output_buffer_size) IN
       \E m \in realloc(heap, thread[t].output_buffer, size, t, thread[t].ncall) :
         /\ heap' = m.heap
         /\ thread' = [thread EXCEPT
                         ![t].pc = "transform",
                         ![t].output_buffer_size = size,
                         ![t].log = Logged(t, Event("realloc", m.ret, size,
                                                    thread[t].output_buffer))]
         /\ UNCHANGED <<history, crashed>>

\* line 29 (taken), lines 36-37.  A double outside the range of int either
\* stops the process (a build that traps) or leaves the wrapped value.
CompressGrow(t) ==
    /\ ~crashed
    /\ thread[t].pc = "loop" /\ thread[t].fn = "compress"
    /\ IsOverflow(thread[t].output_buffer_size, thread[t].size)
    /\ GrowthSteps(thread[t].log) < MaxRetries
    /\ \/ /\ DoublingOverflows(thread[t].output_buffer_size)
          /\ Crash(t, Event("double", thread[t].output_buffer,
                            thread[t].output_buffer_size, 0))
       \/ LET size == Doubled(thread[t].output_buffer_size) IN
          \E m \in realloc(heap, thread[t].output_buffer, size, t, thread[t].ncall) :
            /\ heap' = m.heap
            /\ thread' = [thread EXCEPT
                            ![t].pc = "transform",
                            ![t].output_buffer_size = size,
                            ![t].output_buffer = m.ret,
                            ![t].log = Logged(t, Event("realloc", m.ret, size,
                                                       thread[t].output_buffer))]
            /\ UNCHANGED <<history, crashed>>

\* Py_BuildValue("y#", p, n): None for a null p, else a bytes object of the
\* first n bytes at p.  (n is passed as an int and read as a Py_ssize_t; for
\* the lengths that occur, 0 to the capacity, the two agree.)
BuildBytes(h, p, n) == IF p = NULL THEN PyNone ELSE PyBytes(Take(h[p].data, n))

\* line 29 (not taken), lines 48-49
CompressBuild(t) ==
    /\ ~crashed
    /\ thread[t].pc = "loop" /\ thread[t].fn = "compress"
    /\ ~IsOverflow(thread[t].output_buffer_size, thread[t].size)
    /\ LET buf == thread[t].output_buffer IN
       thread' = [thread EXCEPT
                    ![t].pc = "free",
                    ![t].result = BuildBytes(heap, buf, thread[t].size),
                    ![t].image = IF buf = NULL THEN <<>> ELSE heap[buf].data,
                    ![t].log = Logged(t, Event("build", buf,
                                               thread[t].output_buffer_size,
                                               thread[t].size))]
    /\ heap' = Touch(heap, thread[t].output_buffer, t)
    /\ UNCHANGED <<history, crashed>>

\* lines 50-51
CompressFree(t) ==
    /\ ~crashed
    /\ thread[t].pc = "free" /\ thread[t].fn = "compress"
    /\ heap' = Freed(heap, thread[t].output_buffer, t)
    /\ thread' = [thread EXCEPT
                    ![t].pc = "returned",
                    ![t].log = Logged(t, Event("free", thread[t].output_buffer,
                                               thread[t].output_buffer_size, 0))]
    /\ history' = [history EXCEPT ![t] =
                     Append(@, [fn |-> thread[t].fn, args |-> thread[t].args,
                                result |-> thread[t].result,
                                log |-> thread'[t].log])]
    /\ UNCHANGED crashed


(***************************************************************************)
(* py_smaz_decompress                                                      *)
(***************************************************************************)
\* lines 65-68
DecompressParse(t) ==
    /\ ~crashed
    /\ thread[t].pc = "parse" /\ thread[t].fn = "decompress"
    /\ LET p == ParseDecompressArgs(thread[t].args) IN
         IF p.ok
         THEN /\ thread' = [thread EXCEPT ![t].pc = "malloc",
                                          ![t].input = p.buf,
                                          ![t].input_size = BLen(p.buf)]
              /\ UNCHANGED history
         ELSE Return(t, PyError(p.err))
    /\ UNCHANGED <<heap, crashed>>

\* lines 72-74
DecompressMalloc(t) ==
    /\ ~crashed
    /\ thread[t].pc = "malloc" /\ thread[t].fn = "decompress"
    /\ \E m \in malloc(heap, InitialSize, t, thread[t].ncall) :
         /\ heap' = m.heap
         /\ thread' = [thread EXCEPT
                         ![t].pc = "transform",
                         ![t].output_buffer_size = InitialSize,
                         ![t].output_buffer = m.ret,
                         ![t].log = Logged(t, Event("malloc", m.ret, InitialSize, 0))]
    /\ UNCHANGED <<history, crashed>>

\* lines 75-76 and 90-91
DecompressTransform(t) ==
    /\ ~crashed
    /\ thread[t].pc = "transform" /\ thread[t].fn = "decompress"
    /\ LET buf == thread[t].output_buffer
           cap == thread[t].output_buffer_size
           r == smaz_decompress(thread[t].input, thread[t].input_size, cap)
       IN IF buf = NULL /\ r.stored /= <<>>
          THEN Crash(t, Event("transform", buf, cap, r.code))
          ELSE /\ heap' = IF buf = NULL THEN heap
                          ELSE [heap EXCEPT ![buf].data = Overwrite(@, r.stored),
                                            ![buf].touched = @ \cup {t}]
               /\ thread' = [thread EXCEPT
                               ![t].pc = "loop",
                               ![t].size = r.code,
                               ![t].given = @ \cup {Given(thread[t].input,
                                                          thread[t].input_size)},
                               ![t].log = Logged(t, Event("transform", buf, cap, r.code))]
               /\ UNCHANGED <<history, crashed>>

\* A growth step that doubles the input length along with the capacity.
DecompressGrowInput(t) ==
    /\ ~crashed
    /\ thread[t].pc = "loop" /\ thread[t].fn = "decompress"
    /\ IsOverflow(thread[t].output_buffer_size, thread[t].size)
    /\ GrowthSteps(thread[t].log) < MaxRetries
    /\ LET size == Doubled(thread[t].output_buffer_size) IN
       \E m \in malloc(heap, size, t, thread[t].ncall) :
         /\ heap' = m.heap
         /\ thread' = [thread EXCEPT
                         ![t].pc = "transform",
                         ![t].output_buffer_size = size,
                         ![t].output_buffer = m.ret,
                         ![t].input_size = Doubled(thread[t].input_size),
                         ![t].log = Logged(t, Event("malloc", m.ret, size, 0))]
         /\ UNCHANGED <<history, crashed>>

\* line 81 (taken), lines 87-88: a fresh block; the old one is not released.
\* As in CompressGrow the doubling may leave the range of int.
DecompressGrow(t) ==
    /\ ~crashed
    /\ thread[t].pc = "loop" /\ thread[t].fn = "decompress"
    /\ IsOverflow(thread[t].output_buffer_size, thread[t].size)
    /\ GrowthSteps(thread[t].log) < MaxRetries
    /\ \/ /\ DoublingOverflows(thread[t].output_buffer_size)
          /\ Crash(t, Event("double", thread[t].output_buffer,
                            thread[t].output_buffer_size, 0))
       \/ LET size == Doubled(thread[t].output_buffer_size) IN
          \E m \in malloc(heap, size, t, thread[t].ncall) :
            /\ heap' = m.heap
            /\ thread' = [thread EXCEPT
                            ![t].pc = "transform",
                            ![t].output_buffer_size = size,
                            ![t].output_buffer = m.ret,
                            ![t].log = Logged(t, Event("malloc", m.ret, size, 0))]
            /\ UNCHANGED <<history, crashed>>

\* The outcomes of a one-byte store at index i of block p when i is not below
\* the block's size: the byte lands in the allocator's slack after the block,
\* or on the first byte of another live block, or the process dies.
Overrun(h, p, i, b, t) ==
    {[died |-> TRUE, heap |-> h]}
    \cup {[died |-> FALSE, heap |-> [h EXCEPT ![p].past = b]]}
    \cup {[died |-> FALSE,
           heap |-> [h EXCEPT ![p].past = b, ![q].data = SetAt(@, 0, b),
                              ![q].touched = @ \cup {t}]] :
            q \in {x \in 1..Len(h) : x /= p /\ h[x].live /\ h[x].size > 0}}

\* line 81 (not taken), line 98: output_buffer[decompressed_size] = 0
DecompressTerminate(t) ==
    /\ ~crashed
    /\ thread[t].pc = "loop" /\ thread[t].fn = "decompress"
    /\ ~IsOverflow(thread[t].output_buffer_size, thread[t].size)
    /\ LET buf == thread[t].output_buffer
           i == TerminatorIndex(thread[t].size)
       IN IF buf = NULL
          THEN Crash(t, Event("store", buf, 0, i))
          ELSE \E o \in (IF i < heap[buf].size
                         THEN {[died |-> FALSE,
                                heap |-> [heap EXCEPT ![buf].data = SetAt(@, i, NUL),
                                                      ![buf].touched = @ \cup {t}]]}
                         ELSE Overrun(heap, buf, i, NUL, t)) :
                 IF o.died
                 THEN Crash(t, Event("store", buf, heap[buf].size, i))
                 ELSE /\ heap' = o.heap
                      /\ thread' = [thread EXCEPT
                                      ![t].pc = "build",
                                      ![t].log = Logged(t, Event("store", buf,
                                                                 heap[buf].size, i))]
                      /\ UNCHANGED <<history, crashed>>

\* The C string at block p: the bytes before the first terminator.  With no
\* terminator in the block or just past it, the read runs on into memory the
\* call never wrote.
CString(h, p) ==
    IF Has(h[p].data, NUL) THEN Take(h[p].data, strlen(h[p].data))
    ELSE IF h[p].past = NUL THEN h[p].data
    ELSE Cat(h[p].data, Fill(Poison, 1))

\* Py_BuildValue("s", p): None for a null p, else the str decoded from the
\* UTF-8 C string at p, or a decoding error.
BuildStr(h, p) ==
    IF p = NULL THEN PyNone
    ELSE IF Utf8Valid(CString(h, p)) THEN PyStr(Utf8Decode(CString(h, p)))
    ELSE PyError("UnicodeDecodeError")

\* line 99
DecompressBuild(t) ==
    /\ ~crashed
    /\ thread[t].pc = "build" /\ thread[t].fn = "decompress"
    /\ LET buf == thread[t].output_buffer IN
       thread' = [thread EXCEPT
                    ![t].pc = "free",
                    ![t].result = BuildStr(heap, buf),
                    ![t].image = heap[buf].data,
                    ![t].log = Logged(t, Event("build", buf,
                                               thread[t].output_buffer_size,
                                               thread[t].size))]
    /\ heap' = Touch(heap, thread[t].output_buffer, t)
    /\ UNCHANGED <<history, crashed>>

\* lines 100-101
DecompressFree(t) ==
    /\ ~crashed
    /\ thread[t].pc = "free" /\ thread[t].fn = "decompress"
    /\ heap' = Freed(heap, thread[t].output_buffer, t)
    /\ thread' = [thread EXCEPT
                    ![t].pc = "returned",
                    ![t].log = Logged(t, Event("free", thread[t].output_buffer,
                                               thread[t].output_buffer_size, 0))]
    /\ history' = [history EXCEPT ![t] =
                     Append(@, [fn |-> thread[t].fn, args |-> thread[t].args,
                                result |-> thread[t].result,
                                log |-> thread'[t].log])]
    /\ UNCHANGED crashed

(***************************************************************************)
(* The specifications                                                      *)
(***************************************************************************)
InitWith(tids, left) ==
    /\ heap = <<>>
    /\ thread = [t \in tids |-> Idle(left)]
    /\ history = [t \in tids |-> <<>>]
    /\ crashed = FALSE

Init == InitWith({1}, MaxCalls)

InitConc == InitWith({1, 2}, 1)

InitLong ==
    /\ heap = <<>>
    /\ thread = [t \in {1} |-> [Idle(1) EXCEPT !.host = "long"]]
    /\ history = [t \in {1} |-> <<>>]
    /\ crashed = FALSE

\* The host threads there may be; a specification starts some of them.
Tids == {1, 2}

Live(t) == t \in DOMAIN thread

Next ==
    \/ \E t \in Tids : Live(t) /\ HostCall(t)
    \/ \E t \in Tids : Live(t) /\ CompressParse(t)
    \/ \E t \in Tids : Live(t) /\ CompressMalloc(t)
    \/ \E t \in Tids : Live(t) /\ CompressTransform(t)
    \/ \E t \in Tids : Live(t) /\ CompressGrow(t)
    \/ \E t \in Tids : Live(t) /\ CompressBuild(t)
    \/ \E t \in Tids : Live(t) /\ CompressFree(t)
    \/ \E t \in Tids : Live(t) /\ DecompressParse(t)
    \/ \E t \in Tids : Live(t) /\ DecompressMalloc(t)
    \/ \E t \in Tids : Live(t) /\ DecompressTransform(t)
    \/ \E t \in Tids : Live(t) /\ DecompressGrow(t)
    \/ \E t \in Tids : Live(t) /\ DecompressTerminate(t)
    \/ \E t \in Tids : Live(t) /\ DecompressBuild(t)
    \/ \E t \in Tids : Live(t) /\ DecompressFree(t)

\* One thread calling: a call runs to its end before the next begins.
Spec == Init /\ [][Next]_vars

\* Two threads whose calls interleave step by step.
SpecConc == InitConc /\ [][Next]_vars

\* One thread making one call with an argument from LongPool.
SpecLong == InitLong /\ [][Next]_vars


(***************************************************************************)
(* Properties                                                              *)
(***************************************************************************)
Threads == DOMAIN thread

Finished(t) == thread[t].pc \in {"returned", "crashed"}

\* An allocation of the call with this log gave NULL.
AllocFailed(log) ==
    \E i \in 1..Len(log) : log[i].op \in {"malloc", "realloc"} /\ log[i].buf = NULL

Invocations(log) == {i \in 1..Len(log) : log[i].op = "transform"}

\* The text a compress call was given, when its arguments parse.
TextArg(args) == Len(args) = 1 /\ args[1].kind = "str" /\ ~Has(args[1].val, NUL)

BytesArg(args) == Len(args) = 1 /\ args[1].kind = "bytes"

\* The whole output of the codec for a call's arguments.
FullOutput(fn, args) ==
    IF fn = "compress" THEN SmazCompressed(Utf8Encode(args[1].val))
    ELSE SmazDecompressed(args[1].val)

\* C1: round trip.  When compress was given a text s with no zero byte and
\* returned r, and decompress is then called with r, and no allocation failed
\* in either call, the decompress call ends by returning exactly s.
C1_RoundTrip ==
    \A t \in Threads :
       \A i \in 1..Len(history[t]) :
          (/\ thread[t].ncall = i + 1
           /\ history[t][i].fn = "compress"
           /\ TextArg(history[t][i].args)
           /\ ~AllocFailed(history[t][i].log)
           /\ thread[t].fn = "decompress"
           /\ thread[t].args = <<history[t][i].result>>
           /\ ~AllocFailed(thread[t].log)
           /\ Finished(t))
          => (/\ thread[t].pc = "returned"
              /\ thread[t].result = history[t][i].args[1])

\* C2: growth correctness.  A call whose codec output is longer than 4096
\* bytes ends (no allocation having failed) by returning that whole output
\* at its exact length: compress as bytes, decompress (the output being
\* UTF-8 text with no zero byte) as text.
C2_GrowthCorrect ==
    \A t \in Threads :
       (/\ Finished(t)
        /\ ~AllocFailed(thread[t].log)
        /\ \/ thread[t].fn = "compress" /\ TextArg(thread[t].args)
           \/ /\ thread[t].fn = "decompress" /\ BytesArg(thread[t].args)
              /\ ~Has(FullOutput("decompress", thread[t].args), NUL)
              /\ Utf8Valid(FullOutput("decompress", thread[t].args))
        /\ BLen(FullOutput(thread[t].fn, thread[t].args)) > 4096)
       => (/\ thread[t].pc = "returned"
           /\ thread[t].result.kind = (IF thread[t].fn = "compress" THEN "bytes" ELSE "str")
           /\ (IF thread[t].fn = "compress" THEN thread[t].result.val
               ELSE Utf8Encode(thread[t].result.val))
              = FullOutput(thread[t].fn, thread[t].args))

\* C3: no buffer overrun.  The capacity handed to the codec is the size of
\* the block it writes to, and every store the wrapper makes is at an index
\* below the block's size.
C3_NoOverrun ==
    \A t \in Threads :
       /\ (thread[t].pc = "transform" /\ thread[t].output_buffer /= NULL)
          => heap[thread[t].output_buffer].size = thread[t].output_buffer_size
       /\ \A i \in 1..Len(thread[t].log) :
             (thread[t].log[i].op = "store" /\ thread[t].log[i].buf /= NULL)
             => thread[t].log[i].n < thread[t].log[i].cap

\* C4: no leak.  When a call has returned, every block it allocated has
\* been freed exactly once.
C4_NoLeak ==
    \A t \in Threads :
       thread[t].pc = "returned"
       => \A p \in 1..Len(heap) :
             (heap[p].owner = t /\ heap[p].call = thread[t].ncall)
             => (~heap[p].live /\ heap[p].frees = 1)

\* C5: allocation failure is fatal and reported.  After an allocation of
\* the call gave NULL the codec is not invoked again, and the call ends by
\* returning an out-of-memory error.
C5_AllocFailureReported ==
    \A t \in Threads :
       \A i \in 1..Len(thread[t].log) :
          (thread[t].log[i].op \in {"malloc", "realloc"} /\ thread[t].log[i].buf = NULL)
          => (/\ \A j \in Invocations(thread[t].log) : j < i
              /\ thread[t].pc /= "crashed"
              /\ thread[t].pc \in {"free", "returned"}
                 => thread[t].result = PyError("MemoryError"))


\* The result code of the call's last codec invocation.
LastCode(log) ==
    log[CHOOSE i \in Invocations(log) : \A j \in Invocations(log) : j <= i].n

\* C6: no over-read of output.  Once a call has built its result from the
\* scratch buffer, with L the result code of its last codec invocation: a
\* bytes result is exactly the first L bytes of the buffer, the UTF-8 of a
\* text result is a prefix of those L bytes, and compress with a buffer
\* returns bytes of length L.
C6_NoOverRead ==
    \A t \in Threads :
       (thread[t].pc \in {"free", "returned"} /\ Invocations(thread[t].log) /= {})
       => LET L == LastCode(thread[t].log)
              r == thread[t].result
          IN /\ r.kind = "bytes" => r.val = Take(thread[t].image, L)
             /\ r.kind = "str"
                => IsPrefix(Utf8Encode(r.val), Take(thread[t].image, L))
             /\ (thread[t].fn = "compress" /\ thread[t].output_buffer /= NULL)
                => (r.kind = "bytes" /\ BLen(r.val) = L)

\* A decompress call that grew its buffer has returned a text while the
\* buffer held other bytes after the output and its terminator.
C6_Witness ==
    \E t \in Threads :
       /\ thread[t].pc = "returned" /\ thread[t].fn = "decompress"
       /\ thread[t].result.kind = "str" /\ thread[t].result.val /= <<>>
       /\ thread[t].output_buffer_size > 4096
       /\ Has(Drop(thread[t].image, thread[t].size + 1), Poison)

\* An argument tuple of the wrong arity or type for fn.
WrongShape(fn, args) ==
    \/ Len(args) /= 1
    \/ args[1].kind /= (IF fn = "compress" THEN "str" ELSE "bytes")

\* C7: wrong-shaped argument.  A call whose argument tuple has the wrong
\* arity or type returns an error straight from parsing: it allocates no
\* block and never invokes the codec; the same call made again returns the
\* same error.
C7_WrongShape ==
    \A t \in Threads :
       /\ (thread[t].pc \notin {"idle", "parse"}
           /\ WrongShape(thread[t].fn, thread[t].args))
          => (/\ thread[t].pc = "returned"
              /\ thread[t].result = PyError("TypeError")
              /\ thread[t].log = <<>>
              /\ \A p \in 1..Len(heap) :
                    ~(heap[p].owner = t /\ heap[p].call = thread[t].ncall))
       /\ \A i, j \in 1..Len(history[t]) :
             (/\ WrongShape(history[t][i].fn, history[t][i].args)
              /\ history[t][j].fn = history[t][i].fn
              /\ history[t][j].args = history[t][i].args)
             => (/\ history[t][j].result = history[t][i].result
                 /\ history[t][i].result.kind = "error")

\* The same wrong-shaped call has been made twice and has returned twice.
C7_Witness ==
    \E t \in Threads :
       /\ Len(history[t]) = 2
       /\ WrongShape(history[t][1].fn, history[t][1].args)
       /\ history[t][2].fn = history[t][1].fn
       /\ history[t][2].args = history[t][1].args
       /\ thread[t].pc = "returned"

EmptyCall(t) ==
    \/ thread[t].fn = "compress" /\ thread[t].args = <<PyStr(<<>>)>>
    \/ thread[t].fn = "decompress" /\ thread[t].args = <<PyBytes(<<>>)>>

\* C8: empty input.  In a call of compress with the empty text or of
\* decompress with the empty bytes, no allocation failing, the codec is
\* invoked once, at capacity 4096, the buffer is never grown, and the call
\* ends by returning the empty bytes (compress) or the empty text
\* (decompress).
C8_EmptyInput ==
    \A t \in Threads :
       (EmptyCall(t) /\ ~AllocFailed(thread[t].log))
       => LET log == thread[t].log IN
          /\ \A i \in Invocations(log) : log[i].cap = 4096
          /\ Cardinality(Invocations(log)) <= 1
          /\ Cardinality({i \in 1..Len(log) : log[i].op \in {"malloc", "realloc"}}) <= 1
          /\ Finished(t)
             => (/\ thread[t].pc = "returned"
                 /\ Cardinality(Invocations(log)) = 1
                 /\ thread[t].result = (IF thread[t].fn = "compress"
                                        THEN PyBytes(<<>>) ELSE PyStr(<<>>)))

\* compress of the empty text has returned the empty bytes and decompress of
\* those has returned the empty text.
C8_Witness ==
    \E t \in Threads :
       /\ Len(history[t]) = 2
       /\ history[t][1].fn = "compress" /\ history[t][1].args = <<PyStr(<<>>)>>
       /\ history[t][1].result = PyBytes(<<>>)
       /\ history[t][2].fn = "decompress" /\ history[t][2].args = <<PyBytes(<<>>)>>
       /\ history[t][2].result = PyStr(<<>>)

\* C9: embedded-zero truncation in decompress.  A decompress call in which
\* no allocation failed ends by returning a text and no error: the bytes of
\* the codec's output before its first zero byte, or all of them when it
\* holds none (those bytes being UTF-8).
C9_ZeroTruncation ==
    \A t \in Threads :
       (/\ thread[t].fn = "decompress" /\ BytesArg(thread[t].args)
        /\ ~AllocFailed(thread[t].log)
        /\ Finished(t))
       => LET out == FullOutput("decompress", thread[t].args)
              want == IF Has(out, NUL) THEN Take(out, strlen(out)) ELSE out
          IN Utf8Valid(want)
             => (/\ thread[t].pc = "returned"
                 /\ thread[t].result.kind = "str"
                 /\ Utf8Encode(thread[t].result.val) = want)

\* What a call returns when it runs alone and its allocations succeed.
Alone(fn, args) ==
    IF fn = "compress"
    THEN IF ParseCompressArgs(args).ok THEN PyBytes(FullOutput(fn, args))
         ELSE PyError(ParseCompressArgs(args).err)
    ELSE IF ~ParseDecompressArgs(args).ok THEN PyError(ParseDecompressArgs(args).err)
    ELSE LET out == FullOutput(fn, args)
             want == IF Has(out, NUL) THEN Take(out, strlen(out)) ELSE out
         IN IF Utf8Valid(want) THEN PyStr(Utf8Decode(want))
            ELSE PyError("UnicodeDecodeError")

\* C10: independence of concurrent calls.  With the calls of two threads
\* interleaved, a block is read, written, resized and freed only by the
\* thread that allocated it, and a call in which no allocation failed
\* returns what it returns when run alone.
C10_Independent ==
    /\ \A p \in 1..Len(heap) : heap[p].touched \subseteq {heap[p].owner}
    /\ \A t \in Threads :
          (thread[t].pc = "returned" /\ ~AllocFailed(thread[t].log))
          => thread[t].result = Alone(thread[t].fn, thread[t].args)

\* The codec invocations of a log, in order.
InvocationSeq(log) == SelectSeq(log, LAMBDA e : e.op = "transform")

\* The allocation requests of a log, in order.
RequestSeq(log) == SelectSeq(log, LAMBDA e : e.op \in {"malloc", "realloc"})

\* d is twice c (said without leaving the range of int).
IsDouble(c, d) == d % 2 = 0 /\ d \div 2 = c

\* The call with this log has left its retry loop: Done(L).
Done(log) == \E i \in 1..Len(log) : log[i].op \in {"build", "store"}

\* C11: sizing state machine.  In every call the first codec invocation has
\* capacity 4096; each invocation that is followed by another reported
\* overflow (its capacity plus one) and the next has twice its capacity; a
\* call whose invocation reported overflow goes on to the next invocation
\* (it does not stop at the doubling); and a call that left the loop did so
\* after an invocation that did not report overflow, with L its result code.
C11_SizingMachine ==
    \A t \in Threads :
       LET log == thread[t].log
           inv == InvocationSeq(log)
       IN /\ Len(inv) >= 1 => inv[1].cap = 4096
          /\ \A k \in 1..(Len(inv) - 1) :
                /\ IsOverflow(inv[k].cap, inv[k].n)
                /\ IsDouble(inv[k].cap, inv[k + 1].cap)
          /\ \A i \in 1..Len(log) : log[i].op /= "double"
          /\ Done(log) => (/\ Len(inv) >= 1
                           /\ ~IsOverflow(inv[Len(inv)].cap, inv[Len(inv)].n)
                           /\ thread[t].size = inv[Len(inv)].n)

\* C12: strictly larger buffer on every retry.  Every codec invocation after
\* the first has a capacity that is positive and greater than the capacity
\* of the invocation before it, and no doubling leaves the range of the
\* 32-bit int.
C12_StrictlyLarger ==
    \A t \in Threads :
       LET inv == InvocationSeq(thread[t].log) IN
       /\ \A k \in 1..(Len(inv) - 1) :
             inv[k + 1].cap > 0 /\ inv[k + 1].cap > inv[k].cap
       /\ (thread[t].pc = "loop"
           /\ IsOverflow(thread[t].output_buffer_size, thread[t].size))
          => ~DoublingOverflows(thread[t].output_buffer_size)

\* An allocation of the call with this log that asked for a positive number
\* of bytes gave NULL.
Starved(log) ==
    \E i \in 1..Len(log) :
       log[i].op \in {"malloc", "realloc"} /\ log[i].cap > 0 /\ log[i].buf = NULL

\* The smallest k with c * 2^k >= n.
RECURSIVE RetriesNeeded(_, _)
RetriesNeeded(c, n) ==
    IF c >= n THEN 0
    ELSE IF c >= Half THEN 1
    ELSE 1 + RetriesNeeded(2 * c, n)

\* The arguments of t's call parse.
Parsed(t) ==
    \/ thread[t].fn = "compress" /\ TextArg(thread[t].args)
    \/ thread[t].fn = "decompress" /\ BytesArg(thread[t].args)

\* C13: termination with minimal growth.  In a call whose codec output has
\* N bytes and whose allocations of a positive size all succeed, with k the
\* smallest number such that 4096 * 2^k >= N: the call makes no more than k
\* growth steps, it does not stop before it has left the loop, and when it
\* has left the loop L is N, it has made exactly k growth steps and k + 1
\* invocations, and its capacity is 4096 * 2^k.
C13_MinimalGrowth ==
    \A t \in Threads :
       (Parsed(t) /\ ~Starved(thread[t].log))
       => LET log == thread[t].log
              N == BLen(FullOutput(thread[t].fn, thread[t].args))
              k == RetriesNeeded(4096, N)
          IN /\ GrowthSteps(log) <= k
             /\ Finished(t) => Done(log)
             /\ Done(log) => (/\ thread[t].size = N
                              /\ GrowthSteps(log) = k
                              /\ Len(InvocationSeq(log)) = k + 1
                              /\ thread[t].output_buffer_size % Pow2(k) = 0
                              /\ thread[t].output_buffer_size \div Pow2(k) = 4096)

\* Every codec invocation of the log reported overflow.
AllOverflowed(log) ==
    \A i \in Invocations(log) : IsOverflow(log[i].cap, log[i].n)

\* C14: always-overflow transform.  While every codec invocation of a call
\* has reported overflow, the call has not left its loop and has returned
\* nothing, no error either, and the capacities it has asked the allocator
\* for keep growing: each is at least 4096 and greater than the one before.
C14_AlwaysOverflow ==
    \A t \in Threads :
       LET log == thread[t].log
           req == RequestSeq(log)
       IN (Invocations(log) /= {} /\ AllOverflowed(log))
          => (/\ ~Done(log)
              /\ thread[t].pc /= "returned"
              /\ thread[t].result.kind /= "error"
              /\ \A k \in 1..Len(req) : req[k].cap >= 4096
              /\ \A k \in 1..(Len(req) - 1) : req[k + 1].cap > req[k].cap)

\* The pointer the most recent allocation before event i of the log returned.
LastAllocated(log, i) ==
    log[CHOOSE j \in 1..(i - 1) :
          /\ log[j].op \in {"malloc", "realloc"}
          /\ \A k \in (j + 1)..(i - 1) : log[k].op \notin {"malloc", "realloc"}].buf

\* Every codec invocation, the copy into the result, the terminator store
\* and the free of t's call went to the pointer the most recent allocation
\* returned; the block the call holds is live, its own, and of the size the
\* call takes for its capacity.
UsesLatestBuffer(t) ==
    LET log == thread[t].log
        buf == thread[t].output_buffer
    IN /\ \A i \in 1..Len(log) :
             log[i].op \in {"transform", "build", "store", "free"}
             => log[i].buf = LastAllocated(log, i)
       /\ (thread[t].pc \in {"transform", "loop", "build", "free"} /\ buf /= NULL)
          => (/\ heap[buf].live
              /\ heap[buf].owner = t /\ heap[buf].call = thread[t].ncall
              /\ thread[t].pc \in {"transform", "loop"}
                 => heap[buf].size = thread[t].output_buffer_size)
       /\ \A i \in Invocations(log) :
             \E j \in 1..(i - 1) :
                /\ log[j].op \in {"malloc", "realloc"}
                /\ log[j].cap = log[i].cap
                /\ \A k \in (j + 1)..(i - 1) : log[k].op \notin {"malloc", "realloc"}

\* A step leaves every released block as it was.
ReleasedUntouched ==
    \A p \in 1..Len(heap) : ~heap[p].live => heap'[p] = heap[p]

\* C15: no stale buffer use.  In every call, each codec invocation, the
\* final copy into the result and the final free use the pointer returned by
\* the most recent allocation, the capacity passed to the codec is the size
\* asked of that allocation and the size of the block held, and no step
\* reads or writes a block that was released by a resize or by free.
C15_NoStaleUse ==
    /\ [](\A t \in Threads : UsesLatestBuffer(t))
    /\ [][ReleasedUntouched]_vars

\* A compress call has returned after three growth steps, two of which moved
\* the buffer to another block.
C15_Witness ==
    \E t \in Threads :
       /\ thread[t].pc = "returned" /\ thread[t].fn = "compress"
       /\ thread[t].result.kind = "bytes"
       /\ GrowthSteps(thread[t].log) = 3
       /\ Cardinality({i \in 1..Len(thread[t].log) :
                         /\ thread[t].log[i].op = "realloc"
                         /\ thread[t].log[i].buf /= NULL
                         /\ thread[t].log[i].buf /= thread[t].log[i].n}) = 2

\* The result codes and the capacities of a log's codec invocations, in order.
Responses(log) ==
    [k \in 1..Len(InvocationSeq(log)) |-> InvocationSeq(log)[k].n]

Capacities(log) ==
    [k \in 1..Len(InvocationSeq(log)) |-> InvocationSeq(log)[k].cap]

\* The blocks of t's call that are allocated now.
LiveBlocks(t) ==
    {p \in 1..Len(heap) :
       heap[p].owner = t /\ heap[p].call = thread[t].ncall /\ heap[p].live}

\* C16: the two paths follow the same protocol.  A compress call and a
\* decompress call that have had the same codec responses and no failed
\* allocation, and stand at the same place of their loops, have invoked the
\* codec with the same capacities, hold the same L, and hold the same number
\* of live blocks, at most one.
C16_SameProtocol ==
    \A t, u \in Threads :
       (/\ thread[t].fn = "compress" /\ thread[u].fn = "decompress"
        /\ thread[t].pc \in {"transform", "loop"}
        /\ thread[u].pc = thread[t].pc
        /\ Responses(thread[t].log) = Responses(thread[u].log)
        /\ ~AllocFailed(thread[t].log) /\ ~AllocFailed(thread[u].log))
       => (/\ Capacities(thread[t].log) = Capacities(thread[u].log)
           /\ thread[t].size = thread[u].size
           /\ Cardinality(LiveBlocks(t)) = Cardinality(LiveBlocks(u))
           /\ Cardinality(LiveBlocks(t)) <= 1
           /\ Cardinality(LiveBlocks(u)) <= 1)

\* What the codec is to be given in t's call: the bytes and the length that
\* parsing the arguments gave.
ParsedInput(t) ==
    IF thread[t].fn = "compress"
    THEN Given(ParseCompressArgs(thread[t].args).buf,
               BLen(Utf8Encode(thread[t].args[1].val)))
    ELSE Given(thread[t].args[1].val, BLen(thread[t].args[1].val))

\* Every codec invocation of t's call so far got the parsed input and length.
SameInput(t) == thread[t].given = {} \/ thread[t].given = {ParsedInput(t)}

\* A growth step of thread t changes, of the call's locals, only the buffer
\* pointer and the capacity (and the model's record of the steps taken).
GrowthFrame(t) ==
    (thread[t].pc = "loop" /\ thread'[t].pc = "transform")
    => /\ thread'[t] = [thread[t] EXCEPT
                          !.pc = thread'[t].pc,
                          !.output_buffer = thread'[t].output_buffer,
                          !.output_buffer_size = thread'[t].output_buffer_size,
                          !.log = thread'[t].log]
       /\ history' = history

\* C17: input is untouched by retries.  Within one call every codec
\* invocation, the first and each retry, is given the same input bytes and
\* the same input length, those the arguments parsed to, and a growth step
\* changes only the scratch buffer and its capacity.
C17_InputUntouched ==
    /\ [](\A t \in Threads : SameInput(t))
    /\ [][\A t \in Threads : GrowthFrame(t)]_vars

\* A decompress call has returned a text after four codec invocations.
C17_Witness ==
    \E t \in Threads :
       /\ thread[t].pc = "returned" /\ thread[t].fn = "decompress"
       /\ thread[t].result.kind = "str"
       /\ Len(InvocationSeq(thread[t].log)) = 4
       /\ thread[t].given = {ParsedInput(t)}

====
